---- MODULE Spec2Model ----
(***************************************************************************)
(* RollF (src/rollf.py): a Discord bot with one /roll per participant and  *)
(* day, a scheduler task that draws once a day and announces the draw to   *)
(* the configured channels, and leaderboards over the stored draws.        *)
(*                                                                         *)
(* Time is the unix timestamp in seconds.  Timestamp 0 is local midnight   *)
(* of day 0.  The zone (Europe/Stockholm) has a daylight-saving transition *)
(* in the night to day DstDay when tz is "spring" or "fall".               *)
(***************************************************************************)
EXTENDS Integers, Sequences, FiniteSets, TLC

VARIABLES
    now,            \* the clock: time.time() / datetime.now(TZ)
    tz,             \* which transition of TZ lies in the modelled days
    rolls,          \* table rolls, in rowid order
    users,          \* table users: user_id -> the row, NoUser without one
    guild_channels, \* table guild_channels: guild_id -> channel_id (0 : no row)
    task,           \* the bot_daily_roll tasks of the event loop
    shutdowns,      \* how often the process was shut down so far
    announced,      \* per guild, the channel.send calls started for the latest draw
    skipped,        \* the last day on which the loop took the cutoff branch (line 296)
    req,            \* the /roll interactions
    board,          \* what the last /leaderboards interaction rendered
    stats,          \* what the last /stats interaction computed
    guild_meta,     \* table guild_meta: per guild, the rows' onboarding_sent values
    joins           \* the on_guild_join invocations so far, each with its position

vars == <<now, tz, rolls, users, guild_channels, task, shutdowns, announced,
          skipped, req, board, stats, guild_meta, joins>>

---------------------------------------------------------------------------
(* Bounds of the model *)

MaxDay == 1
MaxShutdowns == 1
MaxTasks == 2
MaxRequests == 2
MaxStreakDay == 4

(* Program constants *)

OPEN_HOUR == 6
CUTOFF_HOUR == 10
PREOPEN_HOUR == 5
PREOPEN_MINUTE == 55
TOP_LIMIT == 10
LAST_N == 10

Hour == 60 * 60
Day == 24 * Hour
DELAY_SPAN == 4 * 60 * 60
BOT_ID == 0
BOT_NAME == "RollF"

(* The day of the transition, and the wall-clock reading at which the new  *)
(* offset starts to apply (03:00 in both directions).                      *)
DstDay == 1
TzKinds == {"none", "spring", "fall"}
Shift == IF tz = "spring" THEN Hour ELSE IF tz = "fall" THEN 0 - Hour ELSE 0
TransitionAt == DstDay * Day + (IF tz = "spring" THEN 2 * Hour ELSE 3 * Hour)

(* The calendar.  Day 0 is Saturday 2024-03-30 ("spring": the clocks go forward  *)
(* on Sunday 2024-03-31), Saturday 2024-10-26 ("fall": they go back on Sunday   *)
(* 2024-10-27) or Monday 2024-12-30 ("none").  The firsts of the months and of  *)
(* the years around the modelled days are given as day numbers.  A reading      *)
(* before day 0 is stamped with the offset of day 0.                            *)
Weekday(d) == (d + (IF tz = "none" THEN 0 ELSE 5)) % 7
MonthStarts ==
    IF tz = "spring" THEN {0 - 29, 2, 32}
    ELSE IF tz = "fall" THEN {0 - 25, 6, 36} ELSE {0 - 29, 2, 33}
YearStarts ==
    IF tz = "spring" THEN {0 - 89, 277}
    ELSE IF tz = "fall" THEN {0 - 299, 67} ELSE {0 - 364, 2, 367}
LastAtOrBefore(S, d) == CHOOSE m \in S : m <= d /\ \A x \in S : x <= d => x <= m
FirstAfter(S, d) == CHOOSE m \in S : m > d /\ \A x \in S : x > d => m <= x

(* Sampled inputs *)

Guilds == {1, 2}
Users == {1, 2}
Names == {"ann", "bo"}
Players == 1..(TOP_LIMIT + 2)
ChannelsOf(g) == IF g = 1 THEN {10, 11} ELSE {10 * g}
Values == {1, 100}
BotValues == {57}
StepSamples == {0, 1}
DelaySamples == {0, DELAY_SPAN - 1}
SchedTimes == {Hour, 10 * Hour - 1, 10 * Hour}
RollTimes == {0, Day - 1}
Tasks == 1..MaxTasks

---------------------------------------------------------------------------
(* The clock and the zone *)

\* datetime.fromtimestamp(ts, TZ) / datetime.now(TZ): the wall-clock reading,
\* in seconds since local midnight of day 0.
Wall(ts) == IF ts < TransitionAt THEN ts ELSE ts + Shift

\* datetime(..., tzinfo=TZ).timestamp() of a wall-clock reading (fold = 0).
Stamp(w) == IF w < DstDay * Day + 3 * Hour THEN w ELSE w - Shift

\* The end of the modelled days: local midnight after day MaxDay.
EndOfTime == Stamp((MaxDay + 1) * Day)

\* The sampled instants: the given local times of day on each modelled day.
Instants(times) == {Stamp(d * Day + s) : d \in 0..MaxDay, s \in times}

LocalDate(ts) == Wall(ts) \div Day
LocalHour(ts) == (Wall(ts) % Day) \div Hour
LocalTimeOfDay(ts) == Wall(ts) % Day

\* today_range with the end 24 hours of elapsed time after the start.
today_range_elapsed_day ==
    <<Stamp(LocalDate(now) * Day), Stamp(LocalDate(now) * Day) + Day>>

\* today_range(): midnight of the local date and the same wall-clock reading one
\* day later, both as timestamps.
today_range == <<Stamp(LocalDate(now) * Day), Stamp((LocalDate(now) + 1) * Day)>>

\* SQL: x BETWEEN a AND b
Between(x, a, b) == a <= x /\ x <= b

BotRows == {i \in 1..Len(rolls) : rolls[i].actor_type = "bot"}

\* bot_rolled_today with the actor filter of the participants' check (line 499).
bot_rolled_today_user_filter ==
    \E i \in 1..Len(rolls) :
        /\ rolls[i].actor_type = "user"
        /\ Between(rolls[i].rolled_at, today_range[1], today_range[2])

\* bot_rolled_today (lines 44-54)

bot_rolled_today ==
    \E i \in BotRows : Between(rolls[i].rolled_at, today_range[1], today_range[2])

\* SecondsToPreopen without the timedelta(days=1): 05:55 of the same day.
SecondsToPreopen_same_day ==
    (LocalDate(now) * Day + PREOPEN_HOUR * Hour + PREOPEN_MINUTE * 60) - Wall(now)

\* (now + timedelta(days=1)).replace(hour=5, minute=55, second=0) - now, as
\* datetime subtracts two readings of the same zone: wall clock against wall clock.
SecondsToPreopen ==
    ((LocalDate(now) + 1) * Day + PREOPEN_HOUR * Hour + PREOPEN_MINUTE * 60) - Wall(now)

\* now.replace(hour=6, minute=0, second=0) - now
SecondsToOpen == (LocalDate(now) * Day + OPEN_HOUR * Hour) - Wall(now)

\* insert_roll that stores every row as a participant's.
insert_roll_as_user(user_id, username, value, actor_type) ==
    Append(rolls, [user_id |-> user_id, username |-> username, value |-> value,
                   rolled_at |-> now, actor_type |-> "user"])

\* insert_roll (lines 72-78)
insert_roll(user_id, username, value, actor_type) ==
    Append(rolls, [user_id |-> user_id, username |-> username, value |-> value,
                   rolled_at |-> now, actor_type |-> actor_type])

---------------------------------------------------------------------------
(* The scheduler task *)

NoOutcome == [idx |-> 0, result |-> "none", notice |-> "none", notices |-> 0]

NoTask == [pc |-> "none", wake |-> 0, rows |-> <<>>, idx |-> 0, value |-> 0,
           day |-> 0, last |-> NoOutcome]

Idle(pc) == [NoTask EXCEPT !.pc = pc]

Sleeping(t) == task[t].pc \in {"sleep_next", "sleep_open", "sleep_delay"}
Runnable(t) == task[t].pc = "top" \/ (Sleeping(t) /\ task[t].wake <= now)
InFanOut(t) == task[t].pc \in {"fan_resolve", "fan_send", "notice"}

\* SELECT guild_id, channel_id FROM guild_channels
ChannelRows ==
    LET gs == {g \in Guilds : guild_channels[g] # 0}
        F[S \in SUBSET gs] ==
            IF S = {} THEN <<>>
            ELSE LET g == CHOOSE x \in S : \A y \in S : x <= y
                 IN  <<[guild_id |-> g, channel_id |-> guild_channels[g]]>> \o F[S \ {g}]
    IN  F[gs]

NoDay == 0 - 1
NoStats == [kind |-> "none"]
NoUser == [username |-> "", updated_at |-> 0]

Init ==
    /\ now = 0
    /\ tz \in TzKinds
    /\ rolls = <<>>
    /\ users = [u \in Players |-> NoUser]
    /\ guild_channels = [g \in Guilds |-> 0]
    /\ task = [t \in Tasks |-> NoTask]
    /\ shutdowns = 0
    /\ announced = [day |-> NoDay, sends |-> [g \in Guilds |-> 0]]
    /\ skipped = NoDay
    /\ req = <<>>
    /\ board = [period |-> "none"]
    /\ stats = NoStats
    /\ guild_meta = [g \in Guilds |-> {}]
    /\ joins = <<>>

---------------------------------------------------------------------------
(* on_ready, shutdown, /setchannel, the passing of time *)

ProcessUp == \E t \in Tasks : task[t].pc # "none"

\* on_ready (lines 277-281) after the process started: bot.loop.create_task.
OnReady ==
    /\ ~ProcessUp
    /\ task' = [task EXCEPT ![1] = Idle("top")]
    /\ UNCHANGED <<now, tz, rolls, users, guild_channels, shutdowns, announced,
                   skipped, req, board, stats, guild_meta, joins>>

\* The process is shut down: every task and every interaction is cancelled at the
\* suspension point it waits at.  The tables stay.
Shutdown ==
    /\ ProcessUp
    /\ shutdowns < MaxShutdowns
    /\ shutdowns' = shutdowns + 1
    /\ task' = [t \in Tasks |-> NoTask]
    /\ req' = <<>>
    /\ joins' = [j \in DOMAIN joins |->
                   IF joins[j].pc = "sending" THEN [joins[j] EXCEPT !.pc = "cancelled"]
                   ELSE joins[j]]
    /\ UNCHANGED <<now, tz, rolls, users, guild_channels, announced,
                   skipped, board, stats, guild_meta>>

\* /setchannel (lines 817-832): the upsert of the guild's row.
SetChannel(g, c) ==
    /\ ProcessUp
    /\ guild_channels[g] # c
    /\ guild_channels' = [guild_channels EXCEPT ![g] = c]
    /\ UNCHANGED <<now, tz, rolls, users, task, shutdowns, announced,
                   skipped, req, board, stats, guild_meta, joins>>

\* Time passes while nothing is ready to run: to the next sampled instant or to
\* the next wake-up of a sleeping task, whichever comes first.  A fan-out is over
\* (or cut off by a shutdown) before the next instant.
Tick(times) ==
    /\ \A t \in Tasks : ~Runnable(t) /\ ~InFanOut(t)
    /\ LET wakes == {task[t].wake : t \in {x \in Tasks : Sleeping(x)}}
           later == {x \in Instants(times) \cup wakes : x > now /\ x < EndOfTime}
       IN  /\ later # {}
           /\ now' = CHOOSE x \in later : \A y \in later : x <= y
    /\ UNCHANGED <<tz, rolls, users, guild_channels, task, shutdowns, announced,
                   skipped, req, board, stats, guild_meta, joins>>

---------------------------------------------------------------------------
(* bot_daily_roll (lines 285-354) *)

\* Lines 288-306: the top of the loop, up to the sleep it ends in.
SchedTop(t) ==
    /\ task[t].pc = "top"
    /\ IF bot_rolled_today
       THEN /\ task' = [task EXCEPT ![t] =
                          [Idle("sleep_next") EXCEPT !.wake = now + SecondsToPreopen]]
            /\ UNCHANGED skipped
       ELSE IF LocalHour(now) >= CUTOFF_HOUR
       THEN /\ task' = [task EXCEPT ![t] =
                          [Idle("sleep_next") EXCEPT !.wake = now + SecondsToPreopen]]
            /\ skipped' = LocalDate(now)
       ELSE IF LocalHour(now) < OPEN_HOUR
       THEN /\ task' = [task EXCEPT ![t] =
                          [Idle("sleep_open") EXCEPT !.wake = now + SecondsToOpen]]
            /\ UNCHANGED skipped
       ELSE /\ \E delay \in DelaySamples :
                  task' = [task EXCEPT ![t] =
                             [Idle("sleep_delay") EXCEPT !.wake = now + delay]]
            /\ UNCHANGED skipped
    /\ UNCHANGED <<now, tz, rolls, users, guild_channels, shutdowns, announced,
                   req, board, stats, guild_meta, joins>>

\* Lines 293-294 and 298-299: the sleep until 05:55 is over; continue.
WakeNext(t) ==
    /\ task[t].pc = "sleep_next"
    /\ task[t].wake <= now
    /\ task' = [task EXCEPT ![t] = Idle("top")]
    /\ UNCHANGED <<now, tz, rolls, users, guild_channels, shutdowns, announced,
                   skipped, req, board, stats, guild_meta, joins>>

\* Lines 303-306: the sleep until 06:00 is over; draw the delay and sleep again.
WakeOpen(t) ==
    /\ task[t].pc = "sleep_open"
    /\ task[t].wake <= now
    /\ \E delay \in DelaySamples :
          task' = [task EXCEPT ![t] = [Idle("sleep_delay") EXCEPT !.wake = now + delay]]
    /\ UNCHANGED <<now, tz, rolls, users, guild_channels, shutdowns, announced,
                   skipped, req, board, stats, guild_meta, joins>>

\* The end of one pass of the for loop (line 319): the next row, or back to the
\* while condition of line 288 after the last one.
NextRow(tk) ==
    [tk EXCEPT !.pc = IF tk.idx < Len(tk.rows) THEN "fan_resolve" ELSE "top",
               !.idx = @ + 1]

\* The outcome of the row the loop is at, kept until the next outcome.
Record(tk, result, notice, n) ==
    [tk EXCEPT !.last = [idx |-> tk.idx, result |-> result, notice |-> notice,
                         notices |-> n]]

WakeDelay_no_recheck(t) ==
    /\ task[t].pc = "sleep_delay"
    /\ task[t].wake <= now
    /\ \E value \in BotValues :
          /\ rolls' = insert_roll(BOT_ID, BOT_NAME, value, "bot")
          /\ task' = [task EXCEPT ![t] =
                [pc |-> IF ChannelRows = <<>> THEN "top" ELSE "fan_resolve",
                 wake |-> 0, rows |-> ChannelRows, idx |-> 1, value |-> value,
                 day |-> LocalDate(now), last |-> NoOutcome]]
          /\ announced' = IF announced.day = LocalDate(now) THEN announced
                          ELSE [day |-> LocalDate(now),
                                sends |-> [g \in Guilds |-> 0]]
    /\ UNCHANGED <<now, tz, users, guild_channels, shutdowns, skipped, req, board,
                   stats, guild_meta, joins>>

\* Lines 308-317: after the delay, the second check, the draw, its insert and
\* the list of destinations.
WakeDelay(t) ==
    /\ task[t].pc = "sleep_delay"
    /\ task[t].wake <= now
    /\ IF bot_rolled_today
       THEN /\ task' = [task EXCEPT ![t] =
                          Record(Idle("top"), "already_drawn", "none", 0)]
            /\ UNCHANGED <<rolls, announced>>
       ELSE \E value \in BotValues :
              /\ rolls' = insert_roll(BOT_ID, BOT_NAME, value, "bot")
              /\ task' = [task EXCEPT ![t] =
                    [pc |-> IF ChannelRows = <<>> THEN "top" ELSE "fan_resolve",
                     wake |-> 0, rows |-> ChannelRows, idx |-> 1, value |-> value,
                     day |-> LocalDate(now), last |-> NoOutcome]]
              /\ announced' = IF announced.day = LocalDate(now) THEN announced
                              ELSE [day |-> LocalDate(now),
                                    sends |-> [g \in Guilds |-> 0]]
    /\ UNCHANGED <<now, tz, users, guild_channels, shutdowns, skipped, req, board,
                   stats, guild_meta, joins>>

\* Lines 328-339 and 346-354: on Forbidden, the notice to the guild's owner when
\* bot.get_guild finds the guild and its owner, inside try/except Exception.
OnForbidden(tk, result, owner) ==
    IF owner
    THEN [Record(tk, result, "pending", 1) EXCEPT !.pc = "notice"]
    ELSE NextRow(Record(tk, result, "no_owner", 0))

\* Lines 321-341: bot.get_channel, and bot.fetch_channel when the cache misses.
\* With a channel in hand the send of line 344 is started.
FanResolve(t) ==
    LET tk == task[t]
        row == tk.rows[tk.idx]
    IN  /\ tk.pc = "fan_resolve"
        /\ \E result \in {"channel", "NotFound", "Forbidden", "HTTPException"} :
             CASE result = "channel" ->
                    /\ task' = [task EXCEPT ![t].pc = "fan_send"]
                    /\ announced' = [announced EXCEPT !.sends[row.guild_id] = @ + 1]
               [] result = "Forbidden" ->
                    /\ \E owner \in BOOLEAN :
                         task' = [task EXCEPT ![t] =
                                    OnForbidden(tk, "resolve_Forbidden", owner)]
                    /\ UNCHANGED announced
               [] OTHER ->
                    /\ task' = [task EXCEPT ![t] =
                                  NextRow(Record(tk, "resolve_" \o result, "none", 0))]
                    /\ UNCHANGED announced
        /\ UNCHANGED <<now, tz, rolls, users, guild_channels, shutdowns, skipped,
                       req, board, stats, guild_meta, joins>>

\* An exception no except clause of the loop catches leaves bot_daily_roll: the
\* task is over.
Raise(tk, result) == [Record(tk, result, "none", 0) EXCEPT !.pc = "dead"]

\* Lines 343-345: what the try around channel.send does with an exception other
\* than Forbidden.
SendFailed(tk, result) == Raise(tk, "send_" \o result)

\* Lines 343-354: the outcome of channel.send; only Forbidden is caught.
FanSend(t) ==
    LET tk == task[t]
    IN  /\ tk.pc = "fan_send"
        /\ \E result \in {"delivered", "NotFound", "Forbidden", "HTTPException"} :
             CASE result = "delivered" ->
                    task' = [task EXCEPT ![t] = NextRow(Record(tk, "delivered", "none", 0))]
               [] result = "Forbidden" ->
                    \E owner \in BOOLEAN :
                      task' = [task EXCEPT ![t] = OnForbidden(tk, "send_Forbidden", owner)]
               [] OTHER ->
                    task' = [task EXCEPT ![t] = SendFailed(tk, result)]
        /\ UNCHANGED <<now, tz, rolls, users, guild_channels, shutdowns, announced,
                       skipped, req, board, stats, guild_meta, joins>>

\* AfterNotice without the try/except around guild.owner.send.
AfterNotice_uncaught(tk, result) ==
    IF result = "sent" THEN NextRow([tk EXCEPT !.last.notice = result])
    ELSE [tk EXCEPT !.last.notice = result, !.pc = "dead"]

\* What the loop does when guild.owner.send fails (lines 337-338 and 353-354:
\* except Exception: pass) or succeeds: the next row.
AfterNotice(tk, result) == NextRow([tk EXCEPT !.last.notice = result])

\* Lines 331 and 349: the outcome of guild.owner.send.
FanNotice(t) ==
    LET tk == task[t]
    IN  /\ tk.pc = "notice"
        /\ \E result \in {"sent", "Exception"} :
             task' = [task EXCEPT ![t] = AfterNotice(tk, result)]
        /\ UNCHANGED <<now, tz, rolls, users, guild_channels, shutdowns, announced,
                       skipped, req, board, stats, guild_meta, joins>>

---------------------------------------------------------------------------
(* The scheduler alone: one task, started by on_ready after each start of   *)
(* the process.                                                            *)

NextSched ==
    \/ OnReady
    \/ Shutdown
    \/ Tick(SchedTimes)
    \/ \E g \in Guilds : \E c \in ChannelsOf(g) : SetChannel(g, c)
    \/ \E t \in Tasks : SchedTop(t)
    \/ \E t \in Tasks : WakeNext(t)
    \/ \E t \in Tasks : WakeOpen(t)
    \/ \E t \in Tasks : WakeDelay(t)
    \/ \E t \in Tasks : FanResolve(t)
    \/ \E t \in Tasks : FanSend(t)
    \/ \E t \in Tasks : FanNotice(t)

SpecSched == Init /\ [][NextSched]_vars

---------------------------------------------------------------------------
(* The scheduler when on_ready fires again while the process runs (the       *)
(* gateway session is replaced after a disconnect): line 280 creates one     *)
(* more bot_daily_roll task each time, and the earlier ones keep running.    *)

OnReadyAgain ==
    /\ ProcessUp
    /\ \E t \in Tasks :
          /\ task[t].pc = "none"
          /\ \A u \in Tasks : u < t => task[u].pc # "none"
          /\ task' = [task EXCEPT ![t] = Idle("top")]
    /\ UNCHANGED <<now, tz, rolls, users, guild_channels, shutdowns, announced,
                   skipped, req, board, stats, guild_meta, joins>>

ReadyTimes == {7 * Hour}

NextReady ==
    \/ OnReady
    \/ OnReadyAgain
    \/ Tick(ReadyTimes)
    \/ \E c \in ChannelsOf(2) : SetChannel(2, c)
    \/ \E t \in Tasks : SchedTop(t)
    \/ \E t \in Tasks : WakeNext(t)
    \/ \E t \in Tasks : WakeOpen(t)
    \/ \E t \in Tasks : WakeDelay(t)
    \/ \E t \in Tasks : FanResolve(t)
    \/ \E t \in Tasks : FanSend(t)
    \/ \E t \in Tasks : FanNotice(t)

SpecReady == Init /\ [][NextReady]_vars

---------------------------------------------------------------------------
(* The scheduler that keeps running: one task, no shutdown.  The event loop  *)
(* runs every coroutine that is ready, asyncio.sleep returns once its time   *)
(* has passed and every call to Discord ends, by returning or by raising:    *)
(* each step of the task that is enabled is eventually taken, and time goes  *)
(* on while the task sleeps.                                                 *)

TaskStep(t) ==
    \/ SchedTop(t)
    \/ WakeNext(t)
    \/ WakeOpen(t)
    \/ WakeDelay(t)
    \/ FanResolve(t)
    \/ FanSend(t)
    \/ FanNotice(t)

NextLive ==
    \/ OnReady
    \/ Tick(SchedTimes)
    \/ \E g \in Guilds : \E c \in ChannelsOf(g) : SetChannel(g, c)
    \/ \E t \in Tasks : TaskStep(t)

SpecLive ==
    /\ Init
    /\ [][NextLive]_vars
    /\ WF_vars(Tick(SchedTimes))
    /\ \A t \in Tasks : WF_vars(TaskStep(t))

---------------------------------------------------------------------------
(* The scheduler with a store that can fail: a statement of bot_rolled_today  *)
(* (lines 46-54), insert_roll (lines 73-78) or the listing of lines 314-317   *)
(* raises sqlite3.Error.  No try of bot_daily_roll encloses these calls.      *)

StoreOps == {"check", "insert", "list"}

StoreFails(t) ==
    \E op \in StoreOps :
        /\ \/ task[t].pc = "top" /\ op = "check"
           \/ /\ task[t].pc = "sleep_delay"
              /\ task[t].wake <= now
              /\ op # "check" => ~bot_rolled_today
        /\ task' = [task EXCEPT ![t] = Raise(task[t], "store_" \o op)]
        /\ IF op = "list"
           THEN /\ \E value \in BotValues :
                     rolls' = insert_roll(BOT_ID, BOT_NAME, value, "bot")
                /\ announced' = IF announced.day = LocalDate(now) THEN announced
                                ELSE [day |-> LocalDate(now),
                                      sends |-> [g \in Guilds |-> 0]]
           ELSE UNCHANGED <<rolls, announced>>
        /\ UNCHANGED <<now, tz, users, guild_channels, shutdowns, skipped, req, board,
                       stats, guild_meta, joins>>

NextSchedStore ==
    \/ NextSched
    \/ \E t \in Tasks : StoreFails(t)

SpecSchedStore == Init /\ [][NextSchedStore]_vars

StoreFailed(tk) == tk.last.result \in {"store_" \o op : op \in StoreOps}

\* C19: after a store operation of a scheduler cycle failed, the task is still
\* running: it is at the top of its loop or in one of its sleeps.
C19_StoreFailureAbandonsCycle ==
    \A t \in Tasks :
        StoreFailed(task[t]) => task[t].pc \in {"top", "sleep_next", "sleep_open",
                                                "sleep_delay"}

---------------------------------------------------------------------------
(* /roll (lines 489-562) *)

UserRows == {i \in 1..Len(rolls) : rolls[i].actor_type = "user"}

\* Lines 493-504: the participant's rows of today.
TodayRowsOf(u) ==
    {i \in UserRows : /\ rolls[i].user_id = u
                      /\ Between(rolls[i].rolled_at, today_range[1], today_range[2])}

\* upsert_user without the DO UPDATE of lines 63-66: an existing row is kept.
upsert_user_keep_row(user_id, username) ==
    IF users[user_id] # NoUser THEN users
    ELSE [users EXCEPT ![user_id] = [username |-> username, updated_at |-> now]]

\* upsert_user (lines 56-69)
upsert_user(user_id, username) ==
    [users EXCEPT ![user_id] = [username |-> username, updated_at |-> now]]

\* Lines 509-511: the seconds until local midnight, wall clock against wall clock.
Remaining ==
    LET left == (LocalDate(now) + 1) * Day - Wall(now)
    IN  IF left > 0 THEN left ELSE 0

\* Lines 491-546: the interaction up to its first suspension point.  With a row
\* of today it replies and returns; with steps = 0 it stores the draw at once;
\* otherwise it sends "rolling..." and animates.
RollStart(u, name) ==
    /\ Len(req) < MaxRequests
    /\ IF TodayRowsOf(u) # {}
       THEN /\ \E i \in TodayRowsOf(u) :
                 req' = Append(req, [user |-> u, name |-> name, pc |-> "done",
                                     reply |-> "already", value |-> rolls[i].value,
                                     steps |-> 0, remaining |-> Remaining])
            /\ UNCHANGED <<rolls, users>>
       ELSE \E value \in Values : \E steps \in StepSamples :
              IF steps = 0
              THEN /\ users' = upsert_user(u, name)
                   /\ rolls' = insert_roll(u, name, value, "user")
                   /\ req' = Append(req, [user |-> u, name |-> name, pc |-> "done",
                                          reply |-> "rolled", value |-> value,
                                          steps |-> 0, remaining |-> 0])
              ELSE /\ req' = Append(req, [user |-> u, name |-> name, pc |-> "rolling",
                                          reply |-> "rolling", value |-> value,
                                          steps |-> steps, remaining |-> 0])
                   /\ UNCHANGED <<rolls, users>>
    /\ UNCHANGED <<now, tz, guild_channels, task, shutdowns, announced, skipped, board, stats, guild_meta, joins>>

\* Lines 548-556: one step of the animation (msg.edit, asyncio.sleep(0.35)).
RollAnimate(r) ==
    /\ r \in 1..Len(req)
    /\ req[r].pc = "rolling"
    /\ req[r].steps > 0
    /\ req' = [req EXCEPT ![r].steps = @ - 1]
    /\ UNCHANGED <<now, tz, rolls, users, guild_channels, task, shutdowns, announced,
                   skipped, board, stats, guild_meta, joins>>

\* Lines 558-562: after the animation, the profile and the draw are stored.
RollFinish(r) ==
    /\ r \in 1..Len(req)
    /\ req[r].pc = "rolling"
    /\ req[r].steps = 0
    /\ users' = upsert_user(req[r].user, req[r].name)
    /\ rolls' = insert_roll(req[r].user, req[r].name, req[r].value, "user")
    /\ req' = [req EXCEPT ![r].pc = "done", ![r].reply = "rolled"]
    /\ UNCHANGED <<now, tz, guild_channels, task, shutdowns, announced, skipped, board, stats, guild_meta, joins>>

(* The /roll interactions alone, with time passing between their steps. *)

NextRoll ==
    \/ Tick(RollTimes)
    \/ \E u \in Users : \E name \in Names : RollStart(u, name)
    \/ \E r \in 1..MaxRequests : RollAnimate(r)
    \/ \E r \in 1..MaxRequests : RollFinish(r)

SpecRoll == Init /\ [][NextRoll]_vars

\* C2: no participant has two 'user' rows whose timestamps fall on the same
\* local day, however the steps of concurrent /roll interactions interleave.
C2_OneUserDrawPerDay ==
    \A i \in UserRows : \A j \in UserRows :
        (/\ rolls[i].user_id = rolls[j].user_id
         /\ LocalDate(rolls[i].rolled_at) = LocalDate(rolls[j].rolled_at))
        => i = j

\* C17: a /roll of a participant who has a draw of today is answered at once
\* with the value of a draw of today and the seconds left until the next local
\* midnight, which are not negative; rolls and users stay as they are.
C17_AlreadyRolledReply ==
    [][\A u \in Users :
         (TodayRowsOf(u) # {} /\ Len(req') = Len(req) + 1 /\ req'[Len(req')].user = u)
         => LET r == req'[Len(req')]
            IN  /\ r.pc = "done"
                /\ r.reply = "already"
                /\ \E i \in TodayRowsOf(u) : r.value = rolls[i].value
                /\ r.remaining >= 0
                /\ r.remaining = Stamp((LocalDate(now) + 1) * Day) - now
                /\ rolls' = rolls
                /\ users' = users]_vars

\* The rows of participant u, and the latest of them.
DrawsOf(u) == {i \in UserRows : rolls[i].user_id = u}
LatestDrawOf(u) == CHOOSE i \in DrawsOf(u) : \A j \in DrawsOf(u) : j <= i

\* C18: every participant with a draw has a users row, and its username is the
\* username of the participant's most recently inserted draw.
C18_ProfileNameIsLatest ==
    \A u \in Users :
        DrawsOf(u) # {} =>
            /\ users[u] # NoUser
            /\ users[u].username = rolls[LatestDrawOf(u)].username

\* C18, witness: a participant drew under one name and later under another.
C18_Witness ==
    \E u \in Users :
        /\ Cardinality(DrawsOf(u)) = 2
        /\ \E i \in DrawsOf(u) : rolls[i].username # rolls[LatestDrawOf(u)].username
        /\ users[u].username = rolls[LatestDrawOf(u)].username

\* C14 as stated: the window of today_range is 24 hours long, contains now and
\* starts at local midnight of the date of now.
C14_DayWindowIs24Hours ==
    /\ today_range[2] - today_range[1] = 24 * Hour
    /\ today_range[1] <= now /\ now < today_range[2]
    /\ LocalDate(today_range[1]) = LocalDate(now)
    /\ LocalTimeOfDay(today_range[1]) = 0

\* C14, amended: the window of today_range runs from local midnight of the date
\* of now to the next local midnight and contains now; it is 24 hours long, but
\* 23 hours on the day the clocks go forward and 25 hours on the day they go back.
C14_DayWindowIsLocalDay ==
    /\ today_range[1] <= now /\ now < today_range[2]
    /\ LocalDate(today_range[1]) = LocalDate(now)
    /\ LocalTimeOfDay(today_range[1]) = 0
    /\ LocalDate(today_range[2]) = LocalDate(now) + 1
    /\ LocalTimeOfDay(today_range[2]) = 0
    /\ today_range[2] - today_range[1] =
          IF LocalDate(now) # DstDay \/ tz = "none" THEN 24 * Hour
          ELSE IF tz = "spring" THEN 23 * Hour ELSE 25 * Hour

\* C14, witness: a /roll in the last second of the day the clocks went back, more
\* than 24 hours after its midnight, answered from the window of that day.
C14_Witness ==
    /\ tz = "fall"
    /\ LocalDate(now) = DstDay
    /\ now - today_range[1] >= 24 * Hour
    /\ \E r \in 1..Len(req) : req[r].reply = "already" /\ req[r].remaining = 1

---------------------------------------------------------------------------
(* /leaderboards (lines 564-815), the periods with a score *)

Periods == {"today", "week", "month", "year", "alltime"}

\* Lines 633-663: start_ts and end_ts of the period.
Window(period) ==
    LET d == LocalDate(now)
        monday == d - Weekday(d)
    IN  CASE period = "today" -> <<Stamp(d * Day), Stamp((d + 1) * Day)>>
          [] period = "week"  -> <<Stamp(monday * Day), Stamp((monday + 7) * Day)>>
          [] period = "month" -> <<Stamp(LastAtOrBefore(MonthStarts, d) * Day),
                                   Stamp(FirstAfter(MonthStarts, d) * Day)>>
          [] period = "year"  -> <<Stamp(LastAtOrBefore(YearStarts, d) * Day),
                                   Stamp(FirstAfter(YearStarts, d) * Day)>>

\* actor_filter that lets the bot's rows into every period.
ActorFilter_with_bot(period) == {"user", "bot"}

\* Lines 627-628: actor_filter.
ActorFilter(period) == IF period = "today" THEN {"user", "bot"} ELSE {"user"}

\* The rows the WHERE clauses of lines 676, 685, 704-705 and 714-715 select.
Selected(period) ==
    {i \in 1..Len(rolls) :
        /\ rolls[i].actor_type \in ActorFilter(period)
        /\ period # "alltime" =>
              Between(rolls[i].rolled_at, Window(period)[1], Window(period)[2])}

\* GROUP BY r.user_id
Actors(period) == {rolls[i].user_id : i \in Selected(period)}

\* Line 698 and lines 673, 683: MAX(r.value) for today, SUM(r.value) otherwise.
Score(period, a) ==
    LET mine == {i \in Selected(period) : rolls[i].user_id = a}
        Sum[k \in 0..Len(rolls)] ==
            IF k = 0 THEN 0
            ELSE Sum[k - 1] + (IF k \in mine THEN rolls[k].value ELSE 0)
    IN  IF period = "today"
        THEN CHOOSE v \in {rolls[i].value : i \in mine} :
                 \A i \in mine : rolls[i].value <= v
        ELSE Sum[Len(rolls)]

\* The grouped result set of lines 668-674, 680-687, 700-709 and 711-718: one
\* row <<user_id, score>> for each actor.
Grouped(period) == {<<a, Score(period, a)>> : a \in Actors(period)}

\* ORDER BY score DESC: every order of the rows with non-increasing scores (the
\* statement names no second key, so rows with equal scores come in any order).
RECURSIVE OrderedByScore(_)
OrderedByScore(S) ==
    IF S = {} THEN {<<>>}
    ELSE LET best == {r \in S : \A q \in S : q[2] <= r[2]}
         IN  UNION {{<<r>> \o rest : rest \in OrderedByScore(S \ {r})} : r \in best}

NoPosition == [rank |-> 0, score |-> 0]

\* Lines 740-752: the rank printed in front of row i of the board.
ShownRank(i, order) == i

\* Lines 778-785: the rank of "Your Position": the index in the full ranking.
PositionRank(i, order) == i

\* Lines 740-752 and 778-794: the numbered rows, the statistics and the
\* requester's position, from the two result sets.
Render(u, period, top, ranking) ==
    LET shown == IF Len(top) < TOP_LIMIT THEN Len(top) ELSE TOP_LIMIT
        top_ids == {top[i][1] : i \in 1..shown}
        found == {i \in 1..Len(ranking) : ranking[i][1] = u}
        user_rank == CHOOSE i \in found : TRUE
    IN  [period |-> period,
         requester |-> u,
         rows |-> [i \in 1..shown |->
                     [rank |-> ShownRank(i, top), uid |-> top[i][1],
                      score |-> top[i][2]]],
         players |-> Cardinality(Actors(period)),
         rolls |-> Cardinality(Selected(period)),
         position |-> IF found # {} /\ u \notin top_ids
                      THEN [rank |-> PositionRank(user_rank, ranking),
                            score |-> ranking[user_rank][2]]
                      ELSE NoPosition]

\* One /leaderboards interaction: the query of the rows (LIMIT 10) and the query
\* of the full ranking each return some order by score.
Leaderboards(u, period) ==
    /\ \E orders \in {OrderedByScore(Grouped(period))} :
       \E top \in orders : \E ranking \in orders :
          board' = Render(u, period, top, ranking)
    /\ UNCHANGED <<now, tz, rolls, users, guild_channels, task, shutdowns, announced,
                   skipped, req, stats, guild_meta, joins>>

(* The boards of stored tables: twelve participants with a draw each, with ties *)
(* at the top and at the bottom of the ranking, the bot's draw or not, an       *)
(* earlier draw of participant 3 and a second draw of participant 4 on one day  *)
(* (the two rows concurrent /roll interactions leave).                          *)

BoardNows == {Day + 12 * Hour}

\* The requesters: one of the first ten and the two below them.
Requesters == {2, TOP_LIMIT + 1, TOP_LIMIT + 2}

BoardStore(second, last, last_at, bot) ==
    LET value(p) == IF p = 1 THEN 100
                    ELSE IF p = 2 THEN second
                    ELSE IF p = TOP_LIMIT + 2 THEN last
                    ELSE IF p = TOP_LIMIT + 1 THEN 50
                    ELSE 101 - p
        at(p) == IF p = TOP_LIMIT + 2 THEN last_at ELSE Day + 8 * Hour
        mine == [p \in Players |->
                   [user_id |-> p, username |-> "ann", value |-> value(p),
                    rolled_at |-> at(p), actor_type |-> "user"]]
        more == <<[user_id |-> 3, username |-> "ann", value |-> 5,
                   rolled_at |-> 12 * Hour, actor_type |-> "user"],
                  [user_id |-> 4, username |-> "ann", value |-> 1,
                   rolled_at |-> Day + 10 * Hour, actor_type |-> "user"]>>
    IN  IF bot
        THEN Append(mine \o more,
                    [user_id |-> BOT_ID, username |-> BOT_NAME, value |-> 99,
                     rolled_at |-> Day + 9 * Hour, actor_type |-> "bot"])
        ELSE mine \o more

InitBoard ==
    /\ now \in BoardNows
    /\ tz \in TzKinds
    /\ \E second \in {99, 100} : \E last \in {40, 50} :
       \E last_at \in {12 * Hour, Day + 8 * Hour} : \E bot \in BOOLEAN :
          rolls = BoardStore(second, last, last_at, bot)
    /\ users = [u \in Players |-> [username |-> "ann", updated_at |-> Day + 8 * Hour]]
    /\ guild_channels = [g \in Guilds |-> 0]
    /\ task = [t \in Tasks |-> NoTask]
    /\ shutdowns = 0
    /\ announced = [day |-> NoDay, sends |-> [g \in Guilds |-> 0]]
    /\ skipped = NoDay
    /\ req = <<>>
    /\ board = [period |-> "none"]
    /\ stats = NoStats
    /\ guild_meta = [g \in Guilds |-> {}]
    /\ joins = <<>>

NextBoard == \E u \in Requesters : \E period \in Periods : Leaderboards(u, period)

SpecBoard == InitBoard /\ [][NextBoard]_vars

(* /roll and /leaderboards of the participants, interleaved. *)

NextRollBoard ==
    \/ NextRoll
    \/ \E u \in Users : \E period \in {"today", "alltime"} : Leaderboards(u, period)

SpecRollBoard == Init /\ [][NextRollBoard]_vars

\* The draws of participants stored on the local date of now.
DrawsToday == {i \in UserRows : LocalDate(rolls[i].rolled_at) = LocalDate(now)}

ShownOn(b) ==
    {b.rows[i] : i \in 1..Len(b.rows)}
      \cup (IF b.position = NoPosition THEN {}
            ELSE {[rank |-> b.position.rank, uid |-> b.requester,
                   score |-> b.position.score]})

\* C16: a "today" board rendered after a participant's /roll of that day stored
\* the value v shows the participant with score v, and an "alltime" board
\* rendered after any /roll that stored v shows the participant with at least v.
C16_RollShowsOnBoards ==
    [][board' # board =>
         /\ board'.period = "today" =>
               \A i \in DrawsToday : \E x \in ShownOn(board') :
                   x.uid = rolls[i].user_id /\ x.score = rolls[i].value
         /\ board'.period = "alltime" =>
               \A i \in UserRows : \E x \in ShownOn(board') :
                   x.uid = rolls[i].user_id /\ x.score >= rolls[i].value]_vars

Greater(period, score) == {a \in Actors(period) : Score(period, a) > score}

\* What the board shows with a rank: its rows and the requester's position.
Shown ==
    {board.rows[i] : i \in 1..Len(board.rows)}
      \cup (IF board.position = NoPosition THEN {}
            ELSE {[rank |-> board.position.rank, uid |-> board.requester,
                   score |-> board.position.score]})

\* C9: on a rendered board, entries with equal scores carry the same rank, and an
\* entry with exactly two actors of a strictly greater score carries rank 3, in
\* the numbered rows and in "Your Position".
C9_TiesShareRank ==
    board.period # "none" =>
        /\ \A x \in Shown : \A y \in Shown : x.score = y.score => x.rank = y.rank
        /\ \A x \in Shown :
              Cardinality(Greater(board.period, x.score)) = 2 => x.rank = 3

\* C10: a requester with a score in the period who is not in the ten rows is
\* shown the score of the full aggregate and the rank 1 + the number of actors
\* with a strictly greater score.
C10_PositionFromFullAggregate ==
    (/\ board.period # "none"
     /\ board.requester \in Actors(board.period)
     /\ \A i \in 1..Len(board.rows) : board.rows[i].uid # board.requester)
    => /\ board.position # NoPosition
       /\ board.position.score = Score(board.period, board.requester)
       /\ board.position.rank =
             1 + Cardinality(Greater(board.period, board.position.score))

---------------------------------------------------------------------------
(* /stats (lines 358-473) with get_user_stats, calculate_streaks and          *)
(* get_period_stats (lines 83-235)                                            *)

\* An SQL value that may be NULL is the set of its values: {} is NULL.
OrZero(x) == IF x = {} THEN 0 ELSE CHOOSE v \in x : TRUE

\* SUM(value) and MAX(value) over the rows S: NULL over no rows.
SqlSum(S) ==
    LET Sum[k \in 0..Len(rolls)] ==
            IF k = 0 THEN 0
            ELSE Sum[k - 1] + (IF k \in S THEN rolls[k].value ELSE 0)
    IN  IF S = {} THEN {} ELSE {Sum[Len(rolls)]}

SqlMax(S) ==
    IF S = {} THEN {}
    ELSE {CHOOSE v \in {rolls[i].value : i \in S} : \A i \in S : rolls[i].value <= v}

\* WHERE user_id = ? AND actor_type = 'user'
RowsOf(user_id) == {i \in UserRows : rolls[i].user_id = user_id}

\* ... AND rolled_at BETWEEN ? AND ?
RowsIn(S, start_ts, end_ts) == {i \in S : Between(rolls[i].rolled_at, start_ts, end_ts)}

\* Lines 114-131 and 212-228: COUNT(*) + 1 over the groups of S whose score is
\* greater than the sum of the participant's rows of S; a comparison with NULL
\* selects no group.
RankIn(S, user_id) ==
    LET mine == SqlSum({i \in S : rolls[i].user_id = user_id})
        groups == {rolls[i].user_id : i \in S}
        above == {g \in groups :
                    \E m \in mine :
                      OrZero(SqlSum({i \in S : rolls[i].user_id = g})) > m}
    IN  Cardinality(above) + 1

\* The rows of the subquery of lines 103-108: the latest LAST_N rows.
LastRows(S) ==
    IF Cardinality(S) <= LAST_N THEN S
    ELSE CHOOSE L \in SUBSET S :
           /\ Cardinality(L) = LAST_N
           /\ \A i \in L : \A j \in S \ L : rolls[j].rolled_at <= rolls[i].rolled_at

\* get_user_stats (lines 83-140); an average is kept as its sum and its count.
get_user_stats(user_id) ==
    LET mine == RowsOf(user_id)
        last == LastRows(mine)
    IN  [rolls |-> Cardinality(mine),
         score |-> OrZero(SqlSum(mine)),
         best  |-> OrZero(SqlMax(mine)),
         avg   |-> <<OrZero(SqlSum(mine)), Cardinality(mine)>>,
         avg10 |-> <<OrZero(SqlSum(last)), Cardinality(last)>>,
         rank  |-> RankIn(UserRows, user_id)]

\* Lines 160-167: the local dates of the participant's draws.
DatesOf(user_id) == {LocalDate(rolls[i].rolled_at) : i \in RowsOf(user_id)}

\* The loop body of lines 176-179 without its else branch: a gap does not start
\* a new run.
NextRun_no_reset(prev, d, run) == run + 1

\* Lines 174-179: the run after date d, with prev the date before it ({}: None).
NextRun(prev, d, run) == IF prev # {} /\ prev = {d - 1} THEN run + 1 ELSE 1

\* Lines 169-182: the loop over sorted_dates; rest holds the dates still to come.
RECURSIVE BestRun(_, _, _, _)
BestRun(rest, prev, run, best) ==
    IF rest = {} THEN best
    ELSE LET d == CHOOSE x \in rest : \A y \in rest : x <= y
             current_run == NextRun(prev, d, run)
         IN  BestRun(rest \ {d}, {d}, current_run,
                     IF best < current_run THEN current_run ELSE best)

\* Lines 193-198: the days before check_day that are in dates, up to the first gap.
RECURSIVE DaysBefore(_, _)
DaysBefore(check_day, dates) ==
    IF check_day - 1 \in dates THEN 1 + DaysBefore(check_day - 1, dates) ELSE 0

\* Lines 187-198 without the test of line 187: the run that ends yesterday counts.
CurrentRun_from_yesterday(today, dates) ==
    IF today \in dates THEN 1 + DaysBefore(today, dates) ELSE DaysBefore(today, dates)

\* Lines 184-198: the streak that includes today.
CurrentRun(today, dates) ==
    IF today \notin dates THEN 0 ELSE 1 + DaysBefore(today, dates)

\* calculate_streaks (lines 142-200): <<current, best>>
calculate_streaks(user_id) ==
    IF RowsOf(user_id) = {} THEN <<0, 0>>
    ELSE <<CurrentRun(LocalDate(now), DatesOf(user_id)),
           BestRun(DatesOf(user_id), {}, 0, 0)>>

\* get_period_stats (lines 202-235)
get_period_stats(user_id, start_ts, end_ts) ==
    LET mine == RowsIn(RowsOf(user_id), start_ts, end_ts)
    IN  [rolls |-> Cardinality(mine),
         score |-> OrZero(SqlSum(mine)),
         best  |-> OrZero(SqlMax(mine)),
         rank  |-> RankIn(RowsIn(UserRows, start_ts, end_ts), user_id)]

\* /stats (lines 358-473): everything the handler computes, and whether it sent
\* the embed or "No statistics exists for this user." (line 395).
Stats(target) ==
    /\ LET all == get_user_stats(target)
           today == RowsIn(RowsOf(target), today_range[1], today_range[2])
       IN  \E today_row \in IF today = {} THEN {{}}
                             ELSE {{rolls[i].value} : i \in today} :
           stats' = [kind |-> IF all.rolls = 0 THEN "no_statistics" ELSE "embed",
                     target |-> target,
                     alltime |-> all,
                     week |-> get_period_stats(target, Window("week")[1],
                                               Window("week")[2]),
                     month |-> get_period_stats(target, Window("month")[1],
                                                Window("month")[2]),
                     streaks |-> calculate_streaks(target),
                     today_row |-> today_row]
    /\ UNCHANGED <<now, tz, rolls, users, guild_channels, task, shutdowns, announced,
                   skipped, req, board, guild_meta, joins>>

\* get_period_stats as a function of its arguments.
PeriodStats(user_id, start_ts, end_ts) ==
    /\ stats' = [kind |-> "period", target |-> user_id,
                 start_ts |-> start_ts, end_ts |-> end_ts,
                 result |-> get_period_stats(user_id, start_ts, end_ts)]
    /\ UNCHANGED <<now, tz, rolls, users, guild_channels, task, shutdowns, announced,
                   skipped, req, board, guild_meta, joins>>

(* The statistics of stored tables.  Participant 1 has a draw of 10 on each   *)
(* day of a set of days, at the first or at the last second of the day, and   *)
(* with twice a second draw on the first of them; participant 2 has a draw at *)
(* the first second of a week and one on day 3; participant 3 has none.       *)

Monday == CHOOSE d \in 0..6 : Weekday(d) = 0
StatsNows == {Stamp(MaxStreakDay * Day + 12 * Hour),
              Stamp((MaxStreakDay + 1) * Day + 12 * Hour)}
StatsTargets == {1, 2, 3}

\* The week before the week of now, and the week of now (lines 367-370).
WeekWindows ==
    LET monday == LocalDate(now) - Weekday(LocalDate(now))
    IN  {<<Stamp((monday - 7) * Day), Stamp(monday * Day)>>,
         <<Stamp(monday * Day), Stamp((monday + 7) * Day)>>}

DrawOf(user_id, value, ts) ==
    [user_id |-> user_id, username |-> "ann", value |-> value, rolled_at |-> ts,
     actor_type |-> "user"]

\* The rows in the order of their insertion.
RECURSIVE InOrder(_)
InOrder(S) ==
    IF S = {} THEN <<>>
    ELSE LET r == CHOOSE x \in S : \A y \in S : x.rolled_at <= y.rolled_at
         IN  <<r>> \o InOrder(S \ {r})

StatsStore(days, t, twice) ==
    LET first == CHOOSE d \in days : \A e \in days : d <= e
    IN  InOrder({DrawOf(1, 10, Stamp(d * Day + t)) : d \in days}
                \cup (IF twice /\ days # {}
                      THEN {DrawOf(1, 7, Stamp(first * Day + 12 * Hour))} ELSE {})
                \cup {DrawOf(2, 30, Stamp(Monday * Day)),
                      DrawOf(2, 20, Stamp(3 * Day + 12 * Hour))})

InitStats ==
    /\ tz \in TzKinds
    /\ now \in StatsNows
    /\ \E days \in SUBSET (0..MaxStreakDay) : \E t \in {0, Day - 1} :
       \E twice \in BOOLEAN :
          rolls = StatsStore(days, t, twice)
    /\ users = [u \in Players |->
                  IF u \in {1, 2} THEN [username |-> "ann", updated_at |-> 0]
                  ELSE NoUser]
    /\ guild_channels = [g \in Guilds |-> 0]
    /\ task = [t \in Tasks |-> NoTask]
    /\ shutdowns = 0
    /\ announced = [day |-> NoDay, sends |-> [g \in Guilds |-> 0]]
    /\ skipped = NoDay
    /\ req = <<>>
    /\ board = [period |-> "none"]
    /\ stats = NoStats
    /\ guild_meta = [g \in Guilds |-> {}]
    /\ joins = <<>>

NextStats ==
    \/ \E target \in StatsTargets : Stats(target)
    \/ \E target \in StatsTargets : \E w \in WeekWindows :
          PeriodStats(target, w[1], w[2])

SpecStats == InitStats /\ [][NextStats]_vars

\* The records that count for actor a on a board of the period: the actor's
\* records in the window of the period, of participants, and for "today" also
\* of the bot.
Counted(period, a) ==
    {i \in 1..Len(rolls) :
        /\ rolls[i].user_id = a
        /\ rolls[i].actor_type = "user"
              \/ (period = "today" /\ rolls[i].actor_type = "bot")
        /\ period # "alltime" =>
              /\ Window(period)[1] <= rolls[i].rolled_at
              /\ rolls[i].rolled_at <= Window(period)[2]}

RECURSIVE SumOfValues(_)
SumOfValues(S) ==
    IF S = {} THEN 0
    ELSE LET i == CHOOSE x \in S : TRUE IN rolls[i].value + SumOfValues(S \ {i})

MaxOfValues(S) == CHOOSE v \in {rolls[i].value : i \in S} :
                      \A i \in S : rolls[i].value <= v

\* C11: every actor shown on a board has a record that counts for the period,
\* and the score shown is the greatest value of those records for "today" and
\* their sum for week, month, year and alltime; records of the bot count for
\* "today" only.
C11_ScoreIsMaxOrSum ==
    board.period # "none" =>
        \A x \in Shown :
            /\ Counted(board.period, x.uid) # {}
            /\ x.score = IF board.period = "today"
                         THEN MaxOfValues(Counted(board.period, x.uid))
                         ELSE SumOfValues(Counted(board.period, x.uid))

\* C11, witness: a week board while the bot's draw lies in the week: no row for
\* the bot, and participant 3 is shown with the sum of two draws.
C11_Witness ==
    /\ board.period = "week"
    /\ \E i \in BotRows : Between(rolls[i].rolled_at, Window("week")[1], Window("week")[2])
    /\ \E r \in 1..Len(board.rows) :
          /\ board.rows[r].uid = 3
          /\ Cardinality(Counted("week", 3)) = 2
          /\ board.rows[r].score = 103

---------------------------------------------------------------------------
(* Claims about /stats *)

\* The participant has a draw between local midnight of day d and the next.
HasDrawOn(u, d) ==
    \E i \in 1..Len(rolls) :
        /\ rolls[i].user_id = u
        /\ rolls[i].actor_type = "user"
        /\ Stamp(d * Day) <= rolls[i].rolled_at
        /\ rolls[i].rolled_at < Stamp((d + 1) * Day)

StreakDays == 0..(MaxStreakDay + 1)
Today == CHOOSE d \in StreakDays : Stamp(d * Day) <= now /\ now < Stamp((d + 1) * Day)

\* The days d..d+k-1 all have a draw of the participant.
RunAt(u, d, k) == \A e \in d..(d + k - 1) : e \in StreakDays /\ HasDrawOn(u, e)

LongestRun(u) ==
    CHOOSE k \in 0..Cardinality(StreakDays) :
        /\ \E d \in StreakDays : RunAt(u, d, k)
        /\ \A j \in (k + 1)..Cardinality(StreakDays) :
              \A d \in StreakDays : ~RunAt(u, d, j)

Handled == stats.kind \in {"embed", "no_statistics"}

\* C12: best_streak is the length of the longest run of consecutive local days
\* with a draw of the participant, each day counting once, and calculate_streaks
\* returns (0, 0) for a participant without draws.
C12_BestStreakIsLongestRun ==
    Handled =>
        /\ stats.streaks[2] = LongestRun(stats.target)
        /\ (\A d \in StreakDays : ~HasDrawOn(stats.target, d))
              => stats.streaks = <<0, 0>>

\* C12, witness: draws on days 0, 1, 2 and 4, two of them on day 0, across the
\* change of the clocks: best_streak is 3.
C12_Witness ==
    /\ Handled
    /\ tz = "spring"
    /\ stats.target = 1
    /\ {d \in StreakDays : HasDrawOn(1, d)} = {0, 1, 2, 4}
    /\ stats.alltime.rolls = 5
    /\ stats.streaks[2] = 3

\* C13: current_streak is 0 without a draw on today's local date, and otherwise
\* the number of consecutive days with a draw that end today.
C13_CurrentStreakEndsToday ==
    Handled =>
        IF ~HasDrawOn(stats.target, Today) THEN stats.streaks[1] = 0
        ELSE /\ stats.streaks[1] >= 1
             /\ RunAt(stats.target, Today - stats.streaks[1] + 1, stats.streaks[1])
             /\ ~HasDrawOn(stats.target, Today - stats.streaks[1])

\* C13, witness: a draw yesterday and the day before, none today: 0.
C13_Witness ==
    /\ Handled
    /\ stats.kind = "embed"
    /\ ~HasDrawOn(stats.target, Today)
    /\ HasDrawOn(stats.target, Today - 1)
    /\ HasDrawOn(stats.target, Today - 2)
    /\ stats.streaks[1] = 0

\* C15: the windows are half-open: get_period_stats over the window from
\* start_ts to end_ts counts exactly the participant's draws with
\* start_ts <= rolled_at < end_ts, so a draw stamped at end_ts is not counted.
C15_WindowsAreHalfOpen ==
    stats.kind = "period" =>
        stats.result.rolls =
            Cardinality({i \in RowsOf(stats.target) :
                           /\ stats.start_ts <= rolls[i].rolled_at
                           /\ rolls[i].rolled_at < stats.end_ts})

\* The draws of participants in the window the query selects, and the rank a
\* score has among the sums of the participants over them.
DrawsIn(start_ts, end_ts) ==
    {i \in UserRows : start_ts <= rolls[i].rolled_at /\ rolls[i].rolled_at <= end_ts}

RankOfScore(score, start_ts, end_ts) ==
    LET in == DrawsIn(start_ts, end_ts)
        sum(g) == SumOfValues({i \in in : rolls[i].user_id = g})
    IN  1 + Cardinality({g \in {rolls[i].user_id : i \in in} : sum(g) > score})

\* C20: the rank get_period_stats returns is 1 + the number of participants whose
\* sum over the window is strictly greater than the score it returns, for the
\* week and the month of /stats and for the function called with a window, also
\* when the participant has no draw in the window and the score is 0.
C20_PeriodRankCountsGreater ==
    /\ stats.kind = "period" =>
          stats.result.rank =
              RankOfScore(stats.result.score, stats.start_ts, stats.end_ts)
    /\ Handled =>
          /\ stats.week.rank =
                RankOfScore(stats.week.score, Window("week")[1], Window("week")[2])
          /\ stats.month.rank =
                RankOfScore(stats.month.score, Window("month")[1], Window("month")[2])

-------------------------------------------------------------------------------------------------------------------------------------
(* on_guild_join (lines 244-274) *)

MaxJoins == 3

\* What channel.send(ONBOARDING_TEXT) (line 267) can end with: it returns, or it
\* raises discord.Forbidden (caught, lines 273-274) or another HTTPException (not
\* caught: the handler ends with the exception).
SendOutcomes == {"sent", "Forbidden", "HTTPException"}

\* The flag check of lines 247-254: `row and row[0]`.
onboarding_sent(g) == \E v \in guild_meta[g] : v # 0

\* Lines 246-267, up to the suspension in channel.send: the flag is read, the first
\* text channel the bot may view and write to is looked for (`sendable`: there is
\* one), and the send is started.
JoinStart(g, sendable) ==
    /\ ProcessUp
    /\ Len(joins) < MaxJoins
    /\ joins' = Append(joins,
                  [guild |-> g,
                   pc |-> IF onboarding_sent(g) THEN "already_sent"
                          ELSE IF ~sendable THEN "no_channel"
                          ELSE "sending"])
    /\ UNCHANGED <<now, tz, rolls, users, guild_channels, task, shutdowns, announced,
                   skipped, req, board, stats, guild_meta>>

\* Lines 267-274: channel.send ends; after a send that returned, the INSERT OR
\* REPLACE of the guild's row with onboarding_sent = 1 follows without suspension.
JoinSend(j, outcome) ==
    /\ joins[j].pc = "sending"
    /\ joins' = [joins EXCEPT ![j].pc = outcome]
    /\ guild_meta' = IF outcome = "sent"
                     THEN [guild_meta EXCEPT ![joins[j].guild] = {1}]
                     ELSE guild_meta
    /\ UNCHANGED <<now, tz, rolls, users, guild_channels, task, shutdowns, announced,
                   skipped, req, board, stats>>

NextJoin ==
    \/ OnReady
    \/ Shutdown
    \/ \E g \in Guilds : \E sendable \in BOOLEAN : JoinStart(g, sendable)
    \/ \E j \in DOMAIN joins : \E outcome \in SendOutcomes : JoinSend(j, outcome)

SpecJoin == Init /\ [][NextJoin]_vars

\* The onboarding messages a guild received.
Onboardings(g) == {j \in DOMAIN joins : joins[j].guild = g /\ joins[j].pc = "sent"}

\* C21: every guild receives the onboarding message at most once, whatever the
\* interleaving of its join events, and the guild's onboarding flag is set only
\* after a send that succeeded.
C21_OnboardingAtMostOnce ==
    \A g \in Guilds :
        /\ Cardinality(Onboardings(g)) <= 1
        /\ onboarding_sent(g) => Onboardings(g) # {}

\* The second half of C21 alone: the flag is set only after a successful send.
C21_FlagOnlyAfterSend ==
    \A g \in Guilds : onboarding_sent(g) => Onboardings(g) # {}


-----------------
(* Claims about the scheduler *)

BotDrawOn(d) == \E i \in BotRows : LocalDate(rolls[i].rolled_at) = d
PreopenTime == PREOPEN_HOUR * Hour + PREOPEN_MINUTE * 60

\* C1: with one scheduler task, also across shutdowns and restarts, the rolls
\* table never holds two 'bot' rows whose timestamps fall on the same local day.
C1_OneBotDrawPerDay ==
    \A i \in BotRows : \A j \in BotRows :
        LocalDate(rolls[i].rolled_at) = LocalDate(rolls[j].rolled_at) => i = j

\* C1, witness: after a shutdown and a restart on a day that already has its draw,
\* the new task has run the top of its loop and sleeps; an earlier day has a draw too.
C1_Witness ==
    /\ shutdowns >= 1
    /\ BotDrawOn(LocalDate(now))
    /\ Cardinality(BotRows) >= 2
    /\ \E t \in Tasks : task[t].pc = "sleep_next"

\* C3: a pass of the loop that starts when today's draw exists inserts nothing,
\* sends nothing and sleeps until 05:55 local time of the next day.
C3_IdempotentUntilPreopen ==
    [][\A t \in Tasks :
         (/\ task[t].pc = "top"
          /\ BotDrawOn(LocalDate(now))
          /\ task'[t].pc \notin {"top", "none"})
         => /\ rolls' = rolls
            /\ announced' = announced
            /\ task'[t].pc = "sleep_next"
            /\ task'[t].last = NoOutcome
            /\ LocalDate(task'[t].wake) = LocalDate(now) + 1
            /\ LocalTimeOfDay(task'[t].wake) = PreopenTime]_vars

C5_LoopNeverEnds == \A t \in Tasks : task[t].pc # "dead"

\* C6: after a transient failure (HTTPException) of a row, at resolution or at
\* the send, the loop is at the following row (or done, after the last row), and
\* the row's announcement was sent at most once.
C6_TransientFailureSkipsOnlyThatRow ==
    \A t \in Tasks :
        task[t].last.result \in {"resolve_HTTPException", "send_HTTPException"}
        => /\ task[t].pc \in {"fan_resolve", "fan_send", "top"}
           /\ task[t].idx = task[t].last.idx + 1
           /\ announced.sends[task[t].rows[task[t].last.idx].guild_id] <= 1

Forbidden(tk) == tk.last.result \in {"resolve_Forbidden", "send_Forbidden"}

\* C7: after Forbidden at resolution or at the send of a row, at most one notice
\* to the owner was started; while it is pending the loop waits at that row, and
\* whatever its outcome the loop goes on with the following row; the row's
\* announcement was sent at most once.
C7_ForbiddenNotifiesOnceAndGoesOn ==
    \A t \in Tasks :
        Forbidden(task[t])
        => /\ task[t].last.notices <= 1
           /\ (task[t].last.notices = 0) = (task[t].last.notice = "no_owner")
           /\ IF task[t].last.notice = "pending"
              THEN task[t].pc = "notice" /\ task[t].idx = task[t].last.idx
              ELSE /\ task[t].idx = task[t].last.idx + 1
                   /\ IF task[t].idx <= Len(task[t].rows)
                      THEN task[t].pc \in {"fan_resolve", "fan_send"}
                      ELSE task[t].pc = "top"
           /\ announced.sends[task[t].rows[task[t].last.idx].guild_id]
                 = IF task[t].last.result = "send_Forbidden" THEN 1 ELSE 0

\* C7, witness: the send to the first row was Forbidden, the notice to the owner
\* failed, and the loop is at the second row.
C7_Witness ==
    \E t \in Tasks :
        /\ task[t].last = [idx |-> 1, result |-> "send_Forbidden",
                           notice |-> "Exception", notices |-> 1]
        /\ task[t].pc = "fan_resolve"
        /\ task[t].idx = 2

\* C8: for no guild row is the announcement of one day's draw sent twice.
C8_AnnouncedAtMostOnce == \A g \in Guilds : announced.sends[g] <= 1

\* C8, witness: after a shutdown, a fan-out is at its second row while /setchannel
\* has replaced the channel of the first row, whose announcement was sent once.
C8_Witness ==
    \E t \in Tasks :
        /\ shutdowns >= 1
        /\ InFanOut(t)
        /\ task[t].idx = 2
        /\ guild_channels[task[t].rows[1].guild_id] # task[t].rows[1].channel_id
        /\ announced.sends[task[t].rows[1].guild_id] = 1

\* The draws of the scheduler on day d.
BotDrawsOn(d) == {i \in BotRows : LocalDate(rolls[i].rolled_at) = d}

\* C22: with several bot_daily_roll tasks in the event loop, every calendar day has
\* at most one system draw, at most one task runs the fan-out of a day's draw, and
\* no guild is sent the day's announcement twice: a task that wakes after the draw
\* of the day was inserted goes back to the top of its loop without posting.
C22_OneDrawWithSeveralTasks ==
    /\ \A d \in 0..(MaxDay + 1) : Cardinality(BotDrawsOn(d)) <= 1
    /\ \A t \in Tasks : \A u \in Tasks :
          InFanOut(t) /\ InFanOut(u) /\ task[t].day = task[u].day => t = u
    /\ \A t \in Tasks : InFanOut(t) => Cardinality(BotDrawsOn(task[t].day)) = 1
    /\ \A g \in Guilds : announced.sends[g] <= 1

\* C22, witness: two tasks run; one inserted today's draw and is in its fan-out,
\* the other slept through its delay, found the draw and is back at the top of its loop.
C22_Witness ==
    \E t \in Tasks : \E u \in Tasks :
        /\ t # u
        /\ InFanOut(t)
        /\ task[t].day = LocalDate(now)
        /\ task[u].pc = "top"
        /\ task[u].last.result = "already_drawn"
        /\ Cardinality(BotDrawsOn(LocalDate(now))) = 1

\* The scheduler's draw of this step, if it makes one.
BotInsert == Len(rolls') = Len(rolls) + 1 /\ rolls'[Len(rolls')].actor_type = "bot"

\* C23: every system draw is inserted at a local time from 06:00 on and before
\* 14:00; a pass of the loop that starts between 06:00 and 10:00 sleeps less than
\* four hours from that instant, so that it wakes on the same calendar day.
C23_DrawBetweenSixAndFourteen ==
    [][/\ BotInsert =>
            /\ LocalHour(rolls'[Len(rolls')].rolled_at) >= OPEN_HOUR
            /\ LocalHour(rolls'[Len(rolls')].rolled_at) < CUTOFF_HOUR + 4
       /\ \A t \in Tasks :
            task[t].pc = "top" /\ task'[t].pc = "sleep_delay"
            => /\ LocalHour(now) >= OPEN_HOUR /\ LocalHour(now) < CUTOFF_HOUR
               /\ task'[t].wake - now < DELAY_SPAN
               /\ LocalDate(task'[t].wake) = LocalDate(now)]_vars

\* The upper half of C23 alone: no system draw at 14:00 or later.
C23_DrawBeforeFourteen ==
    \A i \in BotRows : LocalHour(rolls[i].rolled_at) < CUTOFF_HOUR + 4

\* The scheduler drew or took the cutoff branch on day d.
Settled(d) == BotDrawOn(d) \/ skipped = d

\* The task left bot_daily_roll with an exception.
Dead == \E t \in Tasks : task[t].pc = "dead"

\* Liveness half of C24: while the task runs without exception or shutdown, a day
\* on which the scheduler drew or skipped is followed by a day with exactly one
\* system draw.
C24_DrawOnNextDay ==
    \A d \in 0..(MaxDay - 1) :
        Settled(d) ~> (Dead \/ Cardinality(BotDrawsOn(d + 1)) = 1)

\* C24: while the scheduler task runs without exception or shutdown, a day on which
\* it drew or skipped is followed by a day with exactly one system draw, and that
\* draw is inserted at a local time from 06:00 on and before 10:00.
C24_DailyDrawBeforeCutoff ==
    /\ C24_DrawOnNextDay
    /\ [][\A d \in 0..(MaxDay - 1) :
            (BotInsert /\ Settled(d) /\ LocalDate(now) = d + 1)
            => /\ LocalHour(now) >= OPEN_HOUR
               /\ LocalHour(now) < CUTOFF_HOUR
               /\ ~BotDrawOn(d + 1)]_vars

====
